---- MODULE Spec2Model ----
(***************************************************************************)
(* A model of the SHL assessment recommender: the catalog harvester        *)
(* (scraper.py), the recommendation engine (analysis_engine.py) and the    *)
(* HTTP route over it (api.py).                                            *)
(*                                                                         *)
(* Text is modelled as a sequence of one-character strings, so that        *)
(* stripping, prefix tests and regular-expression matching are computed    *)
(* the way the code computes them.  TLC's strings carry ASCII only: the    *)
(* two glyphs the harvester writes for a facet are spelled by their code   *)
(* points, "U+2705" (the check mark) and "U+2717" (the ballot cross).      *)
(***************************************************************************)
EXTENDS Integers, Sequences, FiniteSets, TLC

(***************************************************************************)
(* Bounds of the model.                                                    *)
(***************************************************************************)
MaxProducts == 3    \* products in the dataset file
SampleCap == 2      \* stands for the 50 of min(50, len(products))
FormatLimit == 1    \* stands for the default limit=30 of _format_for_llm
MaxReplyLen == 4    \* characters of an index-mode reply
MaxWords == 6       \* numbers of a comma-separated index-mode reply
MaxJsonLen == 4     \* lexemes of a JSON-mode reply
MaxK == 1           \* explicit values of the parameter k
NumThreads == 2     \* threads calling _get_products
MaxCalls == 2       \* calls of _get_products per thread
MaxFileChanges == 2 \* times the dataset file is rewritten or removed
NumCombos == 3      \* filter combinations, for the 6 * 10 * 8 of the cross product
NumCategories == 1  \* job categories, for the 23 of job_categories
ComboWorkers == 2   \* stands for max_workers=20 of the first pool
CategoryWorkers == 1 \* stands for max_workers=10 of the second pool
MaxRows == 2        \* rows of a listing page
MaxUiItems == 11    \* items of a JSON array the LLM answers in a UI session
MaxTurns == 2       \* new queries submitted in a UI session

(***************************************************************************)
(* Program constants.                                                      *)
(***************************************************************************)
DefaultK == 5
DefaultDuration == 60
PageSize == 10
TypedMoreLimit == 2
ShowMoreLimit == 3

CHECK_MARK == "U+2705"
BALLOT_X == "U+2717"

BASE_URL == <<"h","t","t","p","s",":","/","/","w","w","w",".","s","h","l",".","c","o","m">>
CONTACT_URL == BASE_URL \o <<"/","c","o","n","t","a","c","t","-","u","s","/">>

\* The None default of the filter arguments of parse_product_row; the filter
\* values themselves start at 1.
None == 0

(***************************************************************************)
(* Text helpers: Python's str.strip, str.startswith("/"), the character    *)
(* classes \d and \w of the re module, and int() of a digit run.           *)
(***************************************************************************)
Digits == {"0","1","2","3","4","5","6","7","8","9"}

IsDigit(c) == c \in Digits

IsWordChar(c) == IsDigit(c) \/ c \in {"a", "b", "m", "J", "_"}

IsSpace(c) == c = " "

DigitVal(c) ==
  CASE c = "0" -> 0 [] c = "1" -> 1 [] c = "2" -> 2 [] c = "3" -> 3 [] c = "4" -> 4
    [] c = "5" -> 5 [] c = "6" -> 6 [] c = "7" -> 7 [] c = "8" -> 8 [] c = "9" -> 9

RECURSIVE ToInt(_)
ToInt(ds) ==
  IF ds = <<>> THEN 0
  ELSE 10 * ToInt(SubSeq(ds, 1, Len(ds) - 1)) + DigitVal(ds[Len(ds)])

RECURSIVE LStrip(_)
LStrip(s) == IF s # <<>> /\ IsSpace(Head(s)) THEN LStrip(Tail(s)) ELSE s

RECURSIVE RStrip(_)
RStrip(s) ==
  IF s # <<>> /\ IsSpace(s[Len(s)]) THEN RStrip(SubSeq(s, 1, Len(s) - 1)) ELSE s

Strip(s) == RStrip(LStrip(s))

StartsWithSlash(s) == s # <<>> /\ Head(s) = "/"

\* The last position of the maximal digit run that starts at position i.
RECURSIVE RunEnd(_, _)
RunEnd(s, i) == IF i < Len(s) /\ IsDigit(s[i + 1]) THEN RunEnd(s, i + 1) ELSE i

\* All sequences over S of length at most n.
SeqsUpTo(S, n) == UNION {[1..m -> S] : m \in 0..n}

Min(a, b) == IF a < b THEN a ELSE b

Range(s) == {s[i] : i \in DOMAIN s}

(***************************************************************************)
(* The harvester's pure functions (scraper.py).                            *)
(*                                                                         *)
(* A listing row <tr> is a record:                                         *)
(*   attr      which row-identifying attribute it has: "course"            *)
(*             (data-course-id), "entity" (data-entity-id), "both", "none" *)
(*   title     whether the td.custom__table-heading__title cell is there   *)
(*   link      whether that cell holds an <a>                              *)
(*   hasHref   whether the <a> has an href attribute                       *)
(*   href      the href's text                                             *)
(*   text      the <a>'s text                                              *)
(*   ncols     how many td.custom__table-heading__general cells there are  *)
(*   remoteYes, adaptiveYes  whether cells 0 and 1 hold a span.-yes        *)
(*   types     the texts of the span.product-catalogue__key of cell 2      *)
(*   detail    what the site answers for the row's detail page             *)
(***************************************************************************)
HasScheme(link) == Len(link) >= 4 /\ SubSeq(link, 1, 4) = <<"h","t","t","p">>

get_full_url(relative_link) ==
  IF StartsWithSlash(relative_link) THEN BASE_URL \o relative_link ELSE relative_link

\* requests.get raises on a URL without a scheme, and on a timeout or a
\* connection error (detail.ok = FALSE); either way the except clause answers
\* an empty description and no sections.
extract_details_from_link(link, detail) ==
  IF HasScheme(link) /\ detail.ok
  THEN [description |-> detail.description, sections |-> detail.sections, error |-> FALSE]
  ELSE [description |-> <<>>, sections |-> <<>>, error |-> TRUE]

\* The facet glyph written to the dataset.
FacetGlyph(present) == IF present THEN CHECK_MARK ELSE BALLOT_X

\* parse_product_row: [kind |-> "none"] for the two early returns,
\* [kind |-> "raise"] for the KeyError of link_tag['href'] and the IndexError
\* of columns[0..2], else the product.
parse_product_row(row, product_type, job_family, job_level, industry, job_category) ==
  IF ~row.title THEN [kind |-> "none"]
  ELSE IF ~row.link THEN [kind |-> "none"]
  ELSE IF ~row.hasHref THEN [kind |-> "raise"]
  ELSE IF row.ncols < 3 THEN [kind |-> "raise"]
  ELSE LET link == get_full_url(Strip(row.href))
           name == Strip(row.text)
           detail_data == extract_details_from_link(link, row.detail)
       IN [kind |-> "row",
           product |->
             [ProductType |-> product_type,
              Name |-> name,
              Link |-> link,
              RemoteTesting |-> FacetGlyph(row.remoteYes),
              Adaptive |-> FacetGlyph(row.adaptiveYes),
              TestTypes |-> row.types,
              Description |-> detail_data.description,
              Sections |-> detail_data.sections,
              JobFamily |-> job_family,
              JobLevel |-> job_level,
              Industry |-> industry,
              JobCategory |-> job_category]]

HasCourseId(row) == row.attr \in {"course", "both"}
HasEntityId(row) == row.attr \in {"entity", "both"}

\* soup.find_all(tr[data-course-id]) + soup.find_all(tr[data-entity-id])
Tables(rows) == SelectSeq(rows, HasCourseId) \o SelectSeq(rows, HasEntityId)

ProductTypeOf(row) == IF HasCourseId(row) THEN "Pre-packaged" ELSE "Individual"

\* The loop of scrape_combination / scrape_job_category over the rows: the
\* parsed products in order, rows answering None left out.
RECURSIVE ParsedRows(_, _, _, _, _)
ParsedRows(tables, job_family, job_level, industry, job_category) ==
  IF tables = <<>> THEN <<>>
  ELSE LET parsed == parse_product_row(Head(tables), ProductTypeOf(Head(tables)),
                                       job_family, job_level, industry, job_category)
           rest == ParsedRows(Tail(tables), job_family, job_level, industry, job_category)
       IN IF parsed.kind = "row" THEN <<parsed.product>> \o rest ELSE rest

AnyRowRaises(tables) ==
  \E i \in DOMAIN tables :
    parse_product_row(tables[i], ProductTypeOf(tables[i]), None, None, None, None).kind = "raise"

\* A listing is [ok |-> whether requests.get answered, rows |-> the page's rows].
\* Any exception inside the try (the request's, or one raised while parsing a
\* row) makes the task answer the empty list.
scrape_combination(combo, listing) ==
  IF ~listing.ok THEN <<>>
  ELSE IF AnyRowRaises(Tables(listing.rows)) THEN <<>>
  ELSE ParsedRows(Tables(listing.rows), combo[1], combo[2], combo[3], None)

scrape_job_category(jc, listing) ==
  IF ~listing.ok THEN <<>>
  ELSE IF AnyRowRaises(Tables(listing.rows)) THEN <<>>
  ELSE ParsedRows(Tables(listing.rows), None, None, None, jc)

(***************************************************************************)
(* The recommendation engine's pure functions (analysis_engine.py).        *)
(* The dataset is the list the harvester wrote, so every product has every *)
(* key and product.get(key, default) is the field.                         *)
(***************************************************************************)
\* re.search(r'(\d+)', text): the first maximal digit run, <<>> when none.
RECURSIVE FirstDigitRun(_, _)
FirstDigitRun(text, i) ==
  IF i > Len(text) THEN <<>>
  ELSE IF IsDigit(text[i]) THEN SubSeq(text, i, RunEnd(text, i))
  ELSE FirstDigitRun(text, i + 1)

RECURSIVE _extract_duration_from(_)
_extract_duration_from(sections) ==
  IF sections = <<>> THEN DefaultDuration
  ELSE LET section == Head(sections)
           match == FirstDigitRun(section.text, 1)
       IN IF section.heading = "Assessment length" /\ match # <<>>
          THEN ToInt(match)
          ELSE _extract_duration_from(Tail(sections))

_extract_duration(product) == _extract_duration_from(product.Sections)

_extract_test_types(product) ==
  IF product.TestTypes # <<>> THEN product.TestTypes ELSE <<"Knowledge & Skills">>

HeadingAndContent(section) == section.heading # "" /\ section.text # <<>>

_get_product_text(product) ==
  [Name |-> product.Name,
   Description |-> product.Description,
   Sections |-> SelectSeq(product.Sections, HeadingAndContent)]

\* products[:limit] for limit >= 0, and for a negative limit as Python slices.
PyPrefix(s, n) ==
  IF n >= 0 THEN SubSeq(s, 1, Min(n, Len(s)))
  ELSE SubSeq(s, 1, IF Len(s) + n > 0 THEN Len(s) + n ELSE 0)

\* The numbered blocks of the prompt: "PRODUCT i+1:", the text, "Link:".
_format_for_llm(products, limit) ==
  [i \in 1..Len(PyPrefix(products, limit)) |->
     [number |-> i, text |-> _get_product_text(products[i]), link |-> products[i].Link]]

YesNo(facet) == IF facet = "Yes" THEN "Yes" ELSE "No"

_extract_product_api_format(product) ==
  [url |-> product.Link,
   adaptive_support |-> YesNo(product.Adaptive),
   description |-> product.Description,
   duration |-> _extract_duration(product),
   remote_support |-> YesNo(product.RemoteTesting),
   test_type |-> _extract_test_types(product)]

\* re.findall(r'\b(\d+)\b', text) from position i on: a digit run is matched
\* only when it is maximal and no word character touches it on either side
\* (inside a run, and next to a letter or an underscore, there is no \b).
\* A reading of the pattern without its leading \b.
BoundaryBefore_Any(text, i) == TRUE

\* \b in front of the digit at position i.
BoundaryBefore(text, i) == i = 1 \/ ~IsWordChar(text[i - 1])

\* \b behind the digit at position j.
BoundaryAfter(text, j) == j = Len(text) \/ ~IsWordChar(text[j + 1])

RECURSIVE FindAllNumbers(_, _)
FindAllNumbers(text, i) ==
  IF i > Len(text) THEN <<>>
  ELSE IF IsDigit(text[i]) /\ BoundaryBefore(text, i)
       THEN LET j == RunEnd(text, i)
            IN IF BoundaryAfter(text, j)
               THEN <<SubSeq(text, i, j)>> \o FindAllNumbers(text, j + 1)
               ELSE FindAllNumbers(text, i + 1)
  ELSE FindAllNumbers(text, i + 1)

\* The loop over the matches: int(match) - 1, kept when inside the sample.
RECURSIVE ValidIndices(_, _)
ValidIndices(matches, n) ==
  IF matches = <<>> THEN <<>>
  ELSE LET idx == ToInt(Head(matches)) - 1
       IN (IF 0 <= idx /\ idx < n THEN <<idx>> ELSE <<>>) \o ValidIndices(Tail(matches), n)

\* The selection without its cut to k.
LimitToK_NoCut(indices, k) == indices

\* indices[:k]
LimitToK(indices, k) == PyPrefix(indices, k)

\* list(range(min(k, len(sampled_products))))
FallbackIndices(k, n) == [i \in 1..(IF Min(k, n) > 0 THEN Min(k, n) ELSE 0) |-> i - 1]

\* The indices the index-mode reply resolves to, fallback included.
SelectedIndices(response_text, n, k) ==
  LET indices == LimitToK(ValidIndices(FindAllNumbers(Strip(response_text), 1), n), k)
  IN IF indices = <<>> THEN FallbackIndices(k, n) ELSE indices

\* The assessment built inline in recommend_assessment_api_format.
Assessment(product) ==
  [url |-> product.Link,
   adaptive_support |-> YesNo(product.Adaptive),
   description |-> product.Description,
   duration |-> _extract_duration(product),
   remote_support |-> YesNo(product.RemoteTesting),
   test_type |-> _extract_test_types(product)]

ErrorAssessment ==
  [url |-> CONTACT_URL,
   adaptive_support |-> "No",
   description |-> <<"Error retrieving recommendations: ">>,
   duration |-> DefaultDuration,
   remote_support |-> "Yes",
   test_type |-> <<"Error">>]

\* recommend_assessment_api_format from the sample on.  llm is the outcome of
\* llm.invoke: [raised |-> BOOLEAN, text |-> the reply].  The answer carries,
\* beside the returned dict, the indices it was built from and the path taken.
recommend_assessment_api_format(sampled_products, k, llm) ==
  IF llm.raised
  THEN [path |-> "error", indices |-> <<>>,
        recommended_assessments |-> <<ErrorAssessment>>]
  ELSE LET n == Len(sampled_products)
           parsed == LimitToK(ValidIndices(FindAllNumbers(Strip(llm.text), 1), n), k)
           indices == SelectedIndices(llm.text, n, k)
       IN [path |-> IF parsed = <<>> THEN "fallback" ELSE "parsed",
           indices |-> indices,
           recommended_assessments |->
             [i \in 1..Len(indices) |-> Assessment(sampled_products[indices[i] + 1])]]

(***************************************************************************)
(* JSON-array mode.  The reply is a sequence of lexemes: "[", "]", an      *)
(* object, or "x", a piece of text that is no JSON.  The commas between    *)
(* the elements of an array are left out of the lexeme sequence.           *)
(***************************************************************************)
ObjA == "{name:A,url:uA}"
ObjBx == "{name:B,url:uB,score:1}"
ObjN == "{name:N}"

JsonObjects == {ObjA, ObjBx, ObjN}

\* The dict an object lexeme parses to.
ObjFields(tok) ==
  CASE tok = ObjA -> [name |-> "A", url |-> <<"u", "A">>]
    [] tok = ObjBx -> [name |-> "B", url |-> <<"u", "B">>, score |-> <<"1">>]
    [] tok = ObjN -> [name |-> "N"]

\* str.find: the 0-based position of the first tok, -1 when there is none.
RECURSIVE Find(_, _, _)
Find(text, tok, i) ==
  IF i > Len(text) THEN -1
  ELSE IF text[i] = tok THEN i - 1
  ELSE Find(text, tok, i + 1)

\* str.rfind: the 0-based position of the last tok, -1 when there is none.
RECURSIVE RFind(_, _, _)
RFind(text, tok, i) ==
  IF i < 1 THEN -1
  ELSE IF text[i] = tok THEN i - 1
  ELSE RFind(text, tok, i - 1)

\* Whether json.loads accepts the lexemes from position i on, d arrays being
\* open: one value, every bracket closed, nothing after the value.
RECURSIVE JsonValid(_, _, _)
JsonValid(js, i, d) ==
  IF i > Len(js) THEN d = 0 /\ js # <<>>
  ELSE IF i > 1 /\ d = 0 THEN FALSE
  ELSE IF js[i] = "[" THEN JsonValid(js, i + 1, d + 1)
  ELSE IF js[i] = "]" THEN d > 0 /\ JsonValid(js, i + 1, d - 1)
  ELSE IF js[i] \in JsonObjects THEN JsonValid(js, i + 1, d)
  ELSE FALSE

\* The objects that are elements of the outermost array of a valid text, in
\* order.  An element that is itself an array has no 'name' and is skipped
\* by the loop over the results, as are the objects inside it.
RECURSIVE TopLevelObjects(_, _, _)
TopLevelObjects(js, i, d) ==
  IF i > Len(js) THEN <<>>
  ELSE IF js[i] = "[" THEN TopLevelObjects(js, i + 1, d + 1)
  ELSE IF js[i] = "]" THEN TopLevelObjects(js, i + 1, d - 1)
  ELSE (IF d = 1 THEN <<js[i]>> ELSE <<>>) \o TopLevelObjects(js, i + 1, d)

HasNameAndUrl(tok) == "name" \in DOMAIN ObjFields(tok) /\ "url" \in DOMAIN ObjFields(tok)

\* An item passed on as the reply gave it.
CleanItem_AsGiven(tok) == ObjFields(tok)

CleanItem(tok) == [name |-> ObjFields(tok).name, url |-> ObjFields(tok).url]

\* clean_results of the items of a parsed array.
CleanResults(js) ==
  LET kept == SelectSeq(TopLevelObjects(js, 1, 0), HasNameAndUrl)
  IN [i \in 1..Len(kept) |-> CleanItem(kept[i])]

\* response_text[start_idx:end_idx] with start_idx = find('[') and
\* end_idx = rfind(']') + 1.
JsonPart(response_text) ==
  SubSeq(response_text, Find(response_text, "[", 1) + 1,
         RFind(response_text, "]", Len(response_text)) + 1)

NoSuitable == [name |-> "No suitable assessments found", url |-> CONTACT_URL]
ErrorRetrieving == [name |-> "Error retrieving recommendations", url |-> CONTACT_URL]

\* recommend_assessment from the reply on; the answer is the list that
\* json.dumps serializes, with the path taken.
recommend_assessment(sampled_products, k, llm) ==
  IF llm.raised THEN [path |-> "error", items |-> <<ErrorRetrieving>>]
  ELSE LET response_text == llm.text
           start_idx == Find(response_text, "[", 1)
           end_idx == RFind(response_text, "]", Len(response_text)) + 1
       IN IF start_idx >= 0 /\ end_idx > start_idx
          THEN IF JsonValid(JsonPart(response_text), 1, 0)
               THEN [path |-> "parsed", items |-> CleanResults(JsonPart(response_text))]
               ELSE [path |-> "error", items |-> <<ErrorRetrieving>>]
          ELSE [path |-> "none", items |-> <<NoSuitable>>]

(***************************************************************************)
(* Inputs.                                                                 *)
(***************************************************************************)
DigitChar(i) ==
  CASE i = 0 -> "0" [] i = 1 -> "1" [] i = 2 -> "2" [] i = 3 -> "3" [] i = 4 -> "4"
    [] i = 5 -> "5" [] i = 6 -> "6" [] i = 7 -> "7" [] i = 8 -> "8" [] i = 9 -> "9"

DetailPages ==
  {[ok |-> FALSE, description |-> <<>>, sections |-> <<>>],
   [ok |-> TRUE, description |-> <<"d">>,
    sections |-> <<[heading |-> "Assessment length", text |-> <<"=", " ", "3", "0">>]>>]}

DetailOk == CHOOSE d \in DetailPages : d.ok
DetailDown == CHOOSE d \in DetailPages : ~d.ok

\* The i-th well-formed row of the catalogue the datasets are harvested from.
CatalogueRow(i) ==
  [attr |-> IF i % 2 = 1 THEN "course" ELSE "entity",
   title |-> TRUE, link |-> TRUE, hasHref |-> TRUE,
   href |-> <<"/", "p", DigitChar(i)>>,
   text |-> <<"J", DigitChar(i)>>,
   ncols |-> 3,
   remoteYes |-> (i % 2 = 1),
   adaptiveYes |-> ((i \div 2) % 2 = 1),
   types |-> IF i % 2 = 1 THEN <<"K">> ELSE <<>>,
   detail |-> IF i % 3 = 0 THEN DetailDown ELSE DetailOk]

\* The dataset file a harvest of the first n catalogue rows writes.
Catalogue(n) ==
  scrape_combination(<<1, 1, 1>>, [ok |-> TRUE, rows |-> [i \in 1..n |-> CatalogueRow(i)]])

Datasets == {Catalogue(n) : n \in 0..MaxProducts}

\* random.sample(products, min(50, len(products))): every arrangement of that
\* many distinct positions of the list.
Samples(products) ==
  LET n == Min(SampleCap, Len(products))
      picks == {f \in [1..n -> 1..Len(products)] :
                  \A i, j \in 1..n : i # j => f[i] # f[j]}
  IN {[i \in 1..n |-> products[f[i]]] : f \in picks}

IndexAlphabet == {"1", "2", "a", ","}

\* ",".join(words)
RECURSIVE Join(_)
Join(words) ==
  IF words = <<>> THEN <<>>
  ELSE IF Len(words) = 1 THEN Head(words)
  ELSE Head(words) \o <<",">> \o Join(Tail(words))

\* Index-mode reply texts: every text of up to MaxReplyLen characters, and
\* the comma-separated lists of up to MaxWords numbers.
IndexReplies ==
  SeqsUpTo(IndexAlphabet, MaxReplyLen)
    \cup {Join(ws) : ws \in SeqsUpTo({<<"1">>, <<"2">>}, MaxWords)}

JsonAlphabet == {"[", "]", "x"} \cup JsonObjects

JsonReplies == SeqsUpTo(JsonAlphabet, MaxJsonLen)

LlmRaised == [raised |-> TRUE, text |-> <<>>]

Outcomes(replies) == {LlmRaised} \cup {[raised |-> FALSE, text |-> t] : t \in replies}

Ks == 0..MaxK \cup {DefaultK}

Queries == {<<>>, <<" ">>, <<" ", "J">>}

(***************************************************************************)
(* State.                                                                  *)
(***************************************************************************)
VARIABLES
  readable,          \* whether the dataset file can be opened and parsed
  products,          \* the dataset _get_products answers when it can
  rpc,               \* "idle", or "returned" after a call of the engine
  fn,                \* the entry point of the last call
  user_query,        \* its query
  k,                 \* its parameter k
  sampled_products,  \* its sample
  prompt,            \* the numbered blocks of its prompt
  llm,               \* the outcome of its llm.invoke
  ret,               \* what it returned, or that it raised
  http               \* the status of the HTTP response, 0 outside POST /recommend

recVars ==
  <<readable, products, rpc, fn, user_query, k, sampled_products, prompt, llm, ret, http>>

VARIABLES
  fileOk,            \* whether open() and json.load() of the dataset file succeed
  fileData,          \* the list the file holds
  fileChanges,       \* how often the file was rewritten or removed
  _products_data,    \* the module's cache: <<>> for None, else <<the list>>
  _products_lock,    \* the thread that holds the lock, 0 when it is free
  tpc,               \* per thread: where it is in _get_products
  calls,             \* per thread: calls of _get_products started
  diskReads,         \* successful reads of the file so far
  readers,           \* the threads that read the file successfully
  returned           \* the values _get_products returned so far

cacheVars ==
  <<fileOk, fileData, fileChanges, _products_data, _products_lock, tpc, calls,
    diskReads, readers, returned>>

VARIABLES
  hpc,               \* where the harvest's main thread is
  tstate,            \* per task: "new", "queued", "running", "done"
  taskListing,       \* per task: the listing its request got
  taskResult,        \* per task: the list it returned
  completed,         \* the finished futures, in order of completion
  collected,         \* how many of them the as_completed loop has taken
  results,           \* the module's aggregate list
  csvFile,           \* <<>> until written, then <<the rows>>
  jsonFile           \* <<>> until written, then <<the rows>>

harvestVars ==
  <<hpc, tstate, taskListing, taskResult, completed, collected, results, csvFile, jsonFile>>

VARIABLES
  spc,               \* "idle", or "returned" after one scrape task
  sTask,             \* the task: <<"combo", combo>> or <<"jc", jc>>
  sListing,          \* the listing its request got
  sReturn            \* the list it returned

scrapeVars == <<spc, sTask, sListing, sReturn>>

VARIABLES
  conversation_history, \* st.session_state.conversation_history
  current_index,        \* st.session_state.current_index
  last_results,         \* st.session_state.last_results
  reply_round,          \* st.session_state.reply_round
  uiTurns,              \* new queries submitted so far
  uiEvent,              \* what the last run of the script handled
  shown,                \* the items the last run displayed for it
  latest                \* the list returned for the latest new query

uiVars ==
  <<conversation_history, current_index, last_results, reply_round, uiTurns, uiEvent,
    shown, latest>>

vars == <<recVars, cacheVars, harvestVars, scrapeVars, uiVars>>

notRec == <<cacheVars, harvestVars, scrapeVars, uiVars>>
notCache == <<recVars, harvestVars, scrapeVars, uiVars>>
notHarvest == <<recVars, cacheVars, scrapeVars, uiVars>>
notScrape == <<recVars, cacheVars, harvestVars, uiVars>>
notUi == <<recVars, cacheVars, harvestVars, scrapeVars>>

(***************************************************************************)
(* The recommendation service: one call per step.                          *)
(***************************************************************************)
NoCall == [path |-> "idle"]

\* _get_products is called before the try block: what open() or json.load
\* raises leaves the function.
Raised == [path |-> "raised"]

NoLlm == [raised |-> FALSE, text |-> <<>>]

RecStart ==
  /\ readable \in BOOLEAN
  /\ products \in Datasets
  /\ rpc = "idle"
  /\ fn = "none"
  /\ user_query = <<>>
  /\ k = 0
  /\ sampled_products = <<>>
  /\ prompt = <<>>
  /\ llm = NoLlm
  /\ ret = NoCall
  /\ http = 0

\* The body of either engine function with its inputs fixed: answer is the
\* function from the reply on.
EngineCall(name, kk, sample, out, answer) ==
  /\ fn' = name
  /\ k' = kk
  /\ IF readable
     THEN /\ sampled_products' = sample
          /\ prompt' = _format_for_llm(sample, FormatLimit)
          /\ llm' = out
          /\ ret' = answer
     ELSE /\ ret' = Raised
          /\ UNCHANGED <<sampled_products, prompt, llm>>

\* recommend_assessment(user_query, k)
CallRecommendAssessment ==
  /\ rpc = "idle"
  /\ \E sample \in Samples(products), out \in Outcomes(JsonReplies) :
       EngineCall("recommend_assessment", DefaultK, sample, out,
                  recommend_assessment(sample, DefaultK, out))
  /\ user_query' = <<"J">>
  /\ rpc' = "returned"
  /\ UNCHANGED <<readable, products, http>>
  /\ UNCHANGED notRec

\* recommend_assessment_api_format(user_query, k)
CallRecommendAssessmentApiFormat ==
  /\ rpc = "idle"
  /\ \E kk \in Ks, sample \in Samples(products), out \in Outcomes(IndexReplies) :
       EngineCall("recommend_assessment_api_format", kk, sample, out,
                  recommend_assessment_api_format(sample, kk, out))
  /\ user_query' = <<"J">>
  /\ rpc' = "returned"
  /\ UNCHANGED <<readable, products, http>>
  /\ UNCHANGED notRec

BlankQuery(query) == query = <<>> \/ Strip(query) = <<>>

\* The status of POST /recommend: 400 on a blank query, 500 when the engine
\* raises, else 200.
StatusOf(query, answer) ==
  IF BlankQuery(query) THEN 400 ELSE IF answer = Raised THEN 500 ELSE 200

\* POST /recommend: the engine's answer with the default k.
PostRecommend ==
  /\ rpc = "idle"
  /\ \E query \in Queries, sample \in Samples(products), out \in Outcomes(IndexReplies) :
       /\ user_query' = query
       /\ IF BlankQuery(query)
          THEN /\ fn' = "recommend"
               /\ ret' = [path |-> "rejected"]
               /\ UNCHANGED <<k, sampled_products, prompt, llm>>
          ELSE EngineCall("recommend", DefaultK, sample, out,
                          recommend_assessment_api_format(sample, DefaultK, out))
       /\ http' = StatusOf(query, ret')
  /\ rpc' = "returned"
  /\ UNCHANGED <<readable, products>>
  /\ UNCHANGED notRec

\* The caller is done with the answer.
RecReturn ==
  /\ rpc = "returned"
  /\ rpc' = "idle"
  /\ fn' = "none"
  /\ user_query' = <<>>
  /\ k' = 0
  /\ sampled_products' = <<>>
  /\ prompt' = <<>>
  /\ llm' = NoLlm
  /\ ret' = NoCall
  /\ http' = 0
  /\ UNCHANGED <<readable, products>>
  /\ UNCHANGED notRec

RecNext ==
  \/ CallRecommendAssessment
  \/ CallRecommendAssessmentApiFormat
  \/ PostRecommend
  \/ RecReturn

(***************************************************************************)
(* The dataset store: _get_products called from several threads while the  *)
(* dataset file may be rewritten by a harvest, or be missing.              *)
(***************************************************************************)
Threads == 1..NumThreads

FileContents == {Catalogue(0), Catalogue(1), Catalogue(MaxProducts)}

CacheStart ==
  /\ fileOk \in BOOLEAN
  /\ fileData \in FileContents
  /\ fileChanges = 0
  /\ _products_data = <<>>
  /\ _products_lock = 0
  /\ tpc = [t \in Threads |-> "idle"]
  /\ calls = [t \in Threads |-> 0]
  /\ diskReads = 0
  /\ readers = {}
  /\ returned = {}

\* A lock that never excludes anyone.
LockIsFree_Always(lock) == TRUE

\* Whether `with _products_lock` may enter.
LockIsFree(lock) == lock = 0

\* A thread calls _get_products().
GetProductsCall(t) ==
  /\ tpc[t] = "idle"
  /\ calls[t] < MaxCalls
  /\ calls' = [calls EXCEPT ![t] = @ + 1]
  /\ tpc' = [tpc EXCEPT ![t] = "with_lock"]
  /\ UNCHANGED <<fileOk, fileData, fileChanges, _products_data, _products_lock,
                 diskReads, readers, returned>>
  /\ UNCHANGED notCache

\* with _products_lock: enter.
GetProductsAcquire(t) ==
  /\ tpc[t] = "with_lock"
  /\ LockIsFree(_products_lock)
  /\ _products_lock' = t
  /\ tpc' = [tpc EXCEPT ![t] = "check"]
  /\ UNCHANGED <<fileOk, fileData, fileChanges, _products_data, calls,
                 diskReads, readers, returned>>
  /\ UNCHANGED notCache

\* if _products_data is None
GetProductsCheck(t) ==
  /\ tpc[t] = "check"
  /\ tpc' = [tpc EXCEPT ![t] = IF _products_data = <<>> THEN "load" ELSE "unlock"]
  /\ UNCHANGED <<fileOk, fileData, fileChanges, _products_data, _products_lock, calls,
                 diskReads, readers, returned>>
  /\ UNCHANGED notCache

\* open() and json.load(): the cache is set; or either raises, the with
\* block releases the lock and the call ends with the exception.
GetProductsLoad(t) ==
  /\ tpc[t] = "load"
  /\ IF fileOk
     THEN /\ _products_data' = <<fileData>>
          /\ diskReads' = diskReads + 1
          /\ readers' = readers \cup {t}
          /\ tpc' = [tpc EXCEPT ![t] = "unlock"]
          /\ UNCHANGED _products_lock
     ELSE /\ _products_lock' = 0
          /\ tpc' = [tpc EXCEPT ![t] = "idle"]
          /\ UNCHANGED <<_products_data, diskReads, readers>>
  /\ UNCHANGED <<fileOk, fileData, fileChanges, calls, returned>>
  /\ UNCHANGED notCache

\* with _products_lock: leave.
GetProductsRelease(t) ==
  /\ tpc[t] = "unlock"
  /\ _products_lock' = 0
  /\ tpc' = [tpc EXCEPT ![t] = "return"]
  /\ UNCHANGED <<fileOk, fileData, fileChanges, _products_data, calls,
                 diskReads, readers, returned>>
  /\ UNCHANGED notCache

\* return _products_data
GetProductsReturn(t) ==
  /\ tpc[t] = "return"
  /\ returned' = returned \cup {_products_data}
  /\ tpc' = [tpc EXCEPT ![t] = "idle"]
  /\ UNCHANGED <<fileOk, fileData, fileChanges, _products_data, _products_lock, calls,
                 diskReads, readers>>
  /\ UNCHANGED notCache

\* A harvest overwrites the dataset file.
FileRewritten ==
  /\ fileChanges < MaxFileChanges
  /\ \E data \in FileContents :
       /\ <<fileOk, fileData>> # <<TRUE, data>>
       /\ fileOk' = TRUE
       /\ fileData' = data
  /\ fileChanges' = fileChanges + 1
  /\ UNCHANGED <<_products_data, _products_lock, tpc, calls, diskReads, readers, returned>>
  /\ UNCHANGED notCache

\* The dataset file is removed, or left unparsable.
FileBroken ==
  /\ fileChanges < MaxFileChanges
  /\ fileOk
  /\ fileOk' = FALSE
  /\ fileChanges' = fileChanges + 1
  /\ UNCHANGED <<fileData, _products_data, _products_lock, tpc, calls, diskReads,
                 readers, returned>>
  /\ UNCHANGED notCache

CacheNext ==
  \/ \E t \in Threads : GetProductsCall(t)
  \/ \E t \in Threads : GetProductsAcquire(t)
  \/ \E t \in Threads : GetProductsCheck(t)
  \/ \E t \in Threads : GetProductsLoad(t)
  \/ \E t \in Threads : GetProductsRelease(t)
  \/ \E t \in Threads : GetProductsReturn(t)
  \/ FileRewritten
  \/ FileBroken

(***************************************************************************)
(* The harvest (scraper.py, the module body): two worker pools, one task   *)
(* per filter combination and then one per job category, the main thread   *)
(* collecting the futures as they complete, then the two output files.     *)
(***************************************************************************)
\* list(product(job_families, job_levels, industries)), the first NumCombos.
Combinations == [i \in 1..NumCombos |-> <<i, 1, 1>>]

job_categories == [i \in 1..NumCategories |-> i]

ComboTasks == 1..NumCombos
CategoryTasks == (NumCombos + 1)..(NumCombos + NumCategories)
Tasks == ComboTasks \cup CategoryTasks

ListingDown == [ok |-> FALSE, rows |-> <<>>]

RowWithoutHref == [CatalogueRow(1) EXCEPT !.hasHref = FALSE]

\* What the site answers to a listing request of the harvest.
PoolListings ==
  {ListingDown,
   [ok |-> TRUE, rows |-> <<CatalogueRow(1)>>],
   [ok |-> TRUE, rows |-> <<CatalogueRow(2), RowWithoutHref>>]}

\* The function a task runs.
RunTask(t, listing) ==
  IF t \in ComboTasks THEN scrape_combination(Combinations[t], listing)
  ELSE scrape_job_category(job_categories[t - NumCombos], listing)

PoolOf(t) == IF t \in ComboTasks THEN "collect1" ELSE "collect2"

WorkersOf(t) == IF t \in ComboTasks THEN ComboWorkers ELSE CategoryWorkers

Running == {t \in Tasks : tstate[t] = "running"}

\* A task whose empty answer empties the aggregate.
Extend_OrReset(aggregate, res) == IF res = <<>> THEN <<>> ELSE aggregate \o res

\* results.extend(res)
Extend(aggregate, res) == aggregate \o res

\* Nothing written for an empty aggregate.
Dump_UnlessEmpty(rows) == IF rows = <<>> THEN <<>> ELSE <<rows>>

\* df.to_csv(...) and json.dump(results, f): the file holds the rows.
Dump(rows) == <<rows>>

HarvestStart ==
  /\ hpc = "submit1"
  /\ tstate = [t \in Tasks |-> "new"]
  /\ taskListing = [t \in Tasks |-> ListingDown]
  /\ taskResult = [t \in Tasks |-> <<>>]
  /\ completed = <<>>
  /\ collected = 0
  /\ results = <<>>
  /\ csvFile = <<>>
  /\ jsonFile = <<>>

\* executor.submit for every combination, all up front.
SubmitCombinations ==
  /\ hpc = "submit1"
  /\ tstate' = [t \in Tasks |-> IF t \in ComboTasks THEN "queued" ELSE tstate[t]]
  /\ hpc' = "collect1"
  /\ UNCHANGED <<taskListing, taskResult, completed, collected, results, csvFile, jsonFile>>
  /\ UNCHANGED notHarvest

\* A free worker of the pool takes the task at the head of the pool's work
\* queue, which holds the tasks in the order of their submission.
TaskStart(t) ==
  /\ tstate[t] = "queued"
  /\ \A u \in Tasks : u < t => tstate[u] # "queued"
  /\ Cardinality(Running) < WorkersOf(t)
  /\ tstate' = [tstate EXCEPT ![t] = "running"]
  /\ UNCHANGED <<hpc, taskListing, taskResult, completed, collected, results, csvFile, jsonFile>>
  /\ UNCHANGED notHarvest

\* The task's request is answered, or fails; the task returns its list and
\* its future completes.
TaskFinish(t) ==
  /\ tstate[t] = "running"
  /\ \E listing \in PoolListings :
       /\ taskListing' = [taskListing EXCEPT ![t] = listing]
       /\ taskResult' = [taskResult EXCEPT ![t] = RunTask(t, listing)]
  /\ tstate' = [tstate EXCEPT ![t] = "done"]
  /\ completed' = Append(completed, t)
  /\ UNCHANGED <<hpc, collected, results, csvFile, jsonFile>>
  /\ UNCHANGED notHarvest

\* One turn of the as_completed loop: res = future.result();
\* results.extend(res).
Collect ==
  /\ hpc \in {"collect1", "collect2"}
  /\ collected < Len(completed)
  /\ results' = Extend(results, taskResult[completed[collected + 1]])
  /\ collected' = collected + 1
  /\ UNCHANGED <<hpc, tstate, taskListing, taskResult, completed, csvFile, jsonFile>>
  /\ UNCHANGED notHarvest

\* The first loop and its with block end; executor.submit for every job
\* category.
SubmitCategories ==
  /\ hpc = "collect1"
  /\ collected = NumCombos
  /\ tstate' = [t \in Tasks |-> IF t \in CategoryTasks THEN "queued" ELSE tstate[t]]
  /\ hpc' = "collect2"
  /\ UNCHANGED <<taskListing, taskResult, completed, collected, results, csvFile, jsonFile>>
  /\ UNCHANGED notHarvest

\* The second loop and its with block end; the aggregate is written to both
\* files.
Save ==
  /\ hpc = "collect2"
  /\ collected = NumCombos + NumCategories
  /\ csvFile' = Dump(results)
  /\ jsonFile' = Dump(results)
  /\ hpc' = "done"
  /\ UNCHANGED <<tstate, taskListing, taskResult, completed, collected, results>>
  /\ UNCHANGED notHarvest

HarvestNext ==
  \/ SubmitCombinations
  \/ \E t \in Tasks : TaskStart(t)
  \/ \E t \in Tasks : TaskFinish(t)
  \/ Collect
  \/ SubmitCategories
  \/ Save

\* Every request ends within its timeout, so every started task finishes;
\* pool workers and the main thread keep running.
HarvestFairness ==
  /\ WF_vars(SubmitCombinations)
  /\ \A t \in Tasks : WF_vars(TaskStart(t))
  /\ \A t \in Tasks : WF_vars(TaskFinish(t))
  /\ WF_vars(Collect)
  /\ WF_vars(SubmitCategories)
  /\ WF_vars(Save)

(***************************************************************************)
(* One scrape task on its own, over every listing page of up to MaxRows    *)
(* rows.                                                                   *)
(***************************************************************************)
\* The rows of a listing page: well-formed ones, and rows with one defect.
ScrapeRows ==
  {CatalogueRow(1), CatalogueRow(2),
   [CatalogueRow(1) EXCEPT !.title = FALSE],
   [CatalogueRow(1) EXCEPT !.link = FALSE],
   [CatalogueRow(1) EXCEPT !.hasHref = FALSE],
   [CatalogueRow(1) EXCEPT !.ncols = 2],
   [CatalogueRow(1) EXCEPT !.href = <<" ">>],
   [CatalogueRow(1) EXCEPT !.href = <<"p", "1">>],
   [CatalogueRow(1) EXCEPT !.text = <<" ">>],
   [CatalogueRow(2) EXCEPT !.attr = "both"],
   [CatalogueRow(2) EXCEPT !.attr = "none"]}

ScrapeListings ==
  {ListingDown} \cup {[ok |-> TRUE, rows |-> rows] : rows \in SeqsUpTo(ScrapeRows, MaxRows)}

ScrapeStart ==
  /\ spc = "idle"
  /\ sTask = <<"none", 0>>
  /\ sListing = ListingDown
  /\ sReturn = <<>>

\* scrape_combination(combo)
ScrapeCombination ==
  /\ spc = "idle"
  /\ \E i \in 1..NumCombos, listing \in ScrapeListings :
       /\ sTask' = <<"combo", i>>
       /\ sListing' = listing
       /\ sReturn' = scrape_combination(Combinations[i], listing)
  /\ spc' = "returned"
  /\ UNCHANGED notScrape

\* scrape_job_category(jc)
ScrapeJobCategory ==
  /\ spc = "idle"
  /\ \E i \in 1..NumCategories, listing \in ScrapeListings :
       /\ sTask' = <<"jc", i>>
       /\ sListing' = listing
       /\ sReturn' = scrape_job_category(job_categories[i], listing)
  /\ spc' = "returned"
  /\ UNCHANGED notScrape

\* The future's result is taken.
ScrapeTaken ==
  /\ spc = "returned"
  /\ spc' = "idle"
  /\ sTask' = <<"none", 0>>
  /\ sListing' = ListingDown
  /\ sReturn' = <<>>
  /\ UNCHANGED notScrape

ScrapeNext ==
  \/ ScrapeCombination
  \/ ScrapeJobCategory
  \/ ScrapeTaken

(***************************************************************************)
(* The UI session (main.py): one run of the script per submitted input or  *)
(* click of the Show More button, over st.session_state.                   *)
(***************************************************************************)
\* str.lower on the characters of the inputs.
LowerChar(c) ==
  CASE c = "M" -> "m" [] c = "O" -> "o" [] c = "R" -> "r" [] c = "E" -> "e"
    [] OTHER -> c

Lower(text) == [i \in DOMAIN text |-> LowerChar(text[i])]

MoreWords ==
  {<<"m","o","r","e">>,
   <<"m","o","r","e"," ","o","p","t","i","o","n","s">>,
   <<"m","o","r","e"," ","a","s","s","e","s","s","m","e","n","t","s">>}

\* user_input.lower().strip() in ["more", "more options", "more assessments"]
IsMoreRequest(user_input) == Strip(Lower(user_input)) \in MoreWords

\* What the user types.
UiInputs ==
  {<<>>, <<" ">>, <<"J">>, <<"J", "2">>,
   <<"m","o","r","e">>, <<" ","M","O","R","E">>,
   <<"m","o","r","e"," ","o","p","t","i","o","n","s">>}

\* The replies of the LLM in a session: an array of n items, an array whose
\* only item lacks its url, a text with no array.
UiReplies ==
  {<<"[">> \o [i \in 1..n |-> ObjA] \o <<"]">> : n \in 0..MaxUiItems}
    \cup {<<"[", ObjBx, ObjA, "]">>, <<"[", ObjN, "]">>, <<"x">>}

\* last_results[start:end]
PySlice(list, start, end) == SubSeq(list, start + 1, Min(end, Len(list)))

UiStart ==
  /\ conversation_history = <<>>
  /\ current_index = 0
  /\ last_results = <<>>
  /\ reply_round = 0
  /\ uiTurns = 0
  /\ uiEvent = "none"
  /\ shown = <<>>
  /\ latest = <<>>

\* What a new query stores as last_results: the parsed list when it is not
\* empty, else what was there.
KeepResults(query_results, previous) == IF query_results # <<>> THEN query_results ELSE previous

\* The "more" branch of a submit, and the Show More button: the next page
\* of last_results.
NextPage(event) ==
  LET start == current_index
      end == start + PageSize
      new_results == PySlice(last_results, start, end)
  IN /\ reply_round' = reply_round + 1
     /\ current_index' = IF new_results # <<>> THEN end ELSE current_index
     /\ shown' = new_results
     /\ uiEvent' = event

\* Submit with an input that is empty after strip(): nothing is handled.
SubmitBlank ==
  /\ \E user_input \in UiInputs : Strip(user_input) = <<>>
  /\ uiEvent' = "blank"
  /\ shown' = <<>>
  /\ UNCHANGED <<conversation_history, current_index, last_results, reply_round, uiTurns,
                 latest>>
  /\ UNCHANGED notUi

\* Submit with "more", "more options" or "more assessments".
SubmitMore ==
  /\ \E user_input \in UiInputs : Strip(user_input) # <<>> /\ IsMoreRequest(user_input)
  /\ IF reply_round >= TypedMoreLimit \/ last_results = <<>>
     THEN /\ uiEvent' = "warning"
          /\ shown' = <<>>
          /\ UNCHANGED <<current_index, reply_round>>
     ELSE NextPage("more")
  /\ UNCHANGED <<conversation_history, last_results, uiTurns, latest>>
  /\ UNCHANGED notUi

\* Submit with any other input: a new query.
SubmitQuery ==
  /\ uiTurns < MaxTurns
  /\ \E user_input \in UiInputs, out \in Outcomes(UiReplies) :
       /\ Strip(user_input) # <<>> /\ ~IsMoreRequest(user_input)
       /\ LET query_results == recommend_assessment(<<>>, DefaultK, out).items
          IN /\ last_results' = KeepResults(query_results, last_results)
             /\ conversation_history' =
                  IF query_results # <<>>
                  THEN Append(conversation_history,
                              [query |-> user_input, results |-> PySlice(query_results, 0, PageSize)])
                  ELSE conversation_history
             /\ shown' = PySlice(query_results, 0, PageSize)
             /\ latest' = query_results
  /\ reply_round' = 1
  /\ current_index' = PageSize
  /\ uiTurns' = uiTurns + 1
  /\ uiEvent' = "query"
  /\ UNCHANGED notUi

\* A click of the Show More Options button, which is rendered when there
\* are results and 0 < reply_round < 3.
ClickShowMore ==
  /\ last_results # <<>>
  /\ reply_round > 0
  /\ reply_round < ShowMoreLimit
  /\ NextPage("button")
  /\ UNCHANGED <<conversation_history, last_results, uiTurns, latest>>
  /\ UNCHANGED notUi

UiNext ==
  \/ SubmitBlank
  \/ SubmitMore
  \/ SubmitQuery
  \/ ClickShowMore

\* The service with the store at rest, and the store with the service at rest.
RecIdle ==
  /\ readable = TRUE
  /\ products = <<>>
  /\ rpc = "idle"
  /\ fn = "none"
  /\ user_query = <<>>
  /\ k = 0
  /\ sampled_products = <<>>
  /\ prompt = <<>>
  /\ llm = NoLlm
  /\ ret = NoCall
  /\ http = 0

CacheIdle ==
  /\ fileOk = TRUE
  /\ fileData = <<>>
  /\ fileChanges = 0
  /\ _products_data = <<>>
  /\ _products_lock = 0
  /\ tpc = [t \in Threads |-> "idle"]
  /\ calls = [t \in Threads |-> 0]
  /\ diskReads = 0
  /\ readers = {}
  /\ returned = {}

RecInit == RecStart /\ CacheIdle /\ HarvestStart /\ ScrapeStart /\ UiStart

CacheInit == CacheStart /\ RecIdle /\ HarvestStart /\ ScrapeStart /\ UiStart

HarvestInit == HarvestStart /\ RecIdle /\ CacheIdle /\ ScrapeStart /\ UiStart

ScrapeInit == ScrapeStart /\ RecIdle /\ CacheIdle /\ HarvestStart /\ UiStart

SpecRec == RecInit /\ [][RecNext]_vars

SpecCache == CacheInit /\ [][CacheNext]_vars

SpecHarvest == HarvestInit /\ [][HarvestNext]_vars

SpecHarvestFair == HarvestInit /\ [][HarvestNext]_vars /\ HarvestFairness

SpecScrape == ScrapeInit /\ [][ScrapeNext]_vars

UiInit == UiStart /\ RecIdle /\ CacheIdle /\ HarvestStart /\ ScrapeStart

SpecUi == UiInit /\ [][UiNext]_vars

(***************************************************************************)
(* Claims about the dataset store, checked under SpecCache.                *)
(***************************************************************************)
\* C4: under any interleaving of concurrent calls of _get_products, the
\* dataset file is read successfully at most once, by one thread, and every
\* call that returns, concurrent or later, returns the same cached value.
C4_ReadOnceSameValue ==
  /\ diskReads <= 1
  /\ Cardinality(readers) <= 1
  /\ Cardinality(returned) <= 1
  /\ \A v \in returned : v = _products_data /\ v # <<>>

\* C4's case: both threads have called, one of them read the file, a call
\* made after the file was rewritten has returned the cached list.
C4_Witness ==
  /\ \A t \in Threads : calls[t] >= 1
  /\ diskReads = 1
  /\ fileOk /\ <<fileData>> # _products_data
  /\ returned = {_products_data}
  /\ \E t \in Threads : t \notin readers /\ calls[t] = MaxCalls /\ tpc[t] = "idle"


(***************************************************************************)
(* Claims about the recommendation service, checked under SpecRec.         *)
(***************************************************************************)
EngineReturned == rpc = "returned" /\ fn \in {"recommend_assessment", "recommend_assessment_api_format"}

ApiReturned == rpc = "returned" /\ fn = "recommend_assessment_api_format" /\ ret # Raised

UiReturned == rpc = "returned" /\ fn = "recommend_assessment" /\ ret # Raised

\* C1: whatever the query, the dataset (one that loads) and the outcome of the
\* LLM call, recommend_assessment and recommend_assessment_api_format return
\* normally and the list they return is not empty.
C1_NeverFailsNeverEmpty ==
  (EngineReturned /\ readable) =>
    /\ ret # Raised
    /\ fn = "recommend_assessment" => ret.items # <<>>
    /\ fn = "recommend_assessment_api_format" => ret.recommended_assessments # <<>>

\* Every maximal run of digits of a text, as <<first, last>> positions.
DigitRuns(text) ==
  {run \in (1..Len(text)) \X (1..Len(text)) :
     /\ run[1] <= run[2]
     /\ \A p \in run[1]..run[2] : IsDigit(text[p])
     /\ run[1] = 1 \/ ~IsDigit(text[run[1] - 1])
     /\ run[2] = Len(text) \/ ~IsDigit(text[run[2] + 1])}

\* The runs that no letter and no underscore touches.
FreeRuns(text) ==
  {run \in DigitRuns(text) :
     /\ run[1] = 1 \/ ~IsWordChar(text[run[1] - 1])
     /\ run[2] = Len(text) \/ ~IsWordChar(text[run[2] + 1])}

\* The runs of a set in order of appearance, as 0-based indices.
RunIndices(text, runs) ==
  [m \in 1..Cardinality(runs) |->
     LET run == CHOOSE r \in runs : Cardinality({q \in runs : q[1] < r[1]}) = m - 1
     IN ToInt(SubSeq(text, run[1], run[2])) - 1]

InSample(idx) == 0 <= idx /\ idx < Len(sampled_products)

\* The first k of the in-range indices of a set of runs.
Resolved(text, runs) ==
  LET inRange == SelectSeq(RunIndices(text, runs), InSample)
  IN SubSeq(inRange, 1, Min(k, Len(inRange)))

RecordsAt(indices) ==
  [i \in 1..Len(indices) |-> _extract_product_api_format(sampled_products[indices[i] + 1])]

\* C2 as stated: in index mode the resolved indices are the digit runs of the
\* reply, in order, 1-based to 0-based, out-of-range values discarded, cut to
\* the first k, and the returned records are those of the sampled products at
\* these indices.
C2_EveryDigitRun ==
  (ApiReturned /\ ~llm.raised) =>
    /\ ret.indices = Resolved(llm.text, DigitRuns(llm.text))
    /\ ret.recommended_assessments = RecordsAt(Resolved(llm.text, DigitRuns(llm.text)))

\* C2 amended: the resolved indices are the digit runs of the reply that no
\* letter, digit or underscore touches, in order, 1-based to 0-based,
\* out-of-range values discarded, cut to the first k.  When this list is not
\* empty the returned records are those of the sampled products at these
\* indices, in that order; when it is empty they are the records of the first
\* min(k, N) sampled products.
C2_WordBoundedRuns ==
  (ApiReturned /\ ~llm.raised) =>
    LET resolved == Resolved(llm.text, FreeRuns(llm.text))
        firstK == [i \in 1..Min(k, Len(sampled_products)) |-> i - 1]
    IN IF resolved # <<>>
       THEN /\ ret.indices = resolved
            /\ ret.recommended_assessments = RecordsAt(resolved)
       ELSE ret.recommended_assessments = RecordsAt(firstK)

\* C2's case: a reply with a digit run that a letter touches and another
\* that resolves to a product of a sample of two.
C2_Witness ==
  /\ ApiReturned /\ ~llm.raised
  /\ ret.path = "parsed"
  /\ FreeRuns(llm.text) # DigitRuns(llm.text)
  /\ Len(sampled_products) = 2
  /\ ret.indices = <<1>>

\* The places where the reply holds "[", objects that all have name and url,
\* "]": a syntactically valid JSON array of such objects.
ArraysOfItems(text) ==
  {span \in (1..Len(text)) \X (1..Len(text)) :
     /\ span[1] < span[2]
     /\ text[span[1]] = "[" /\ text[span[2]] = "]"
     /\ \A p \in (span[1] + 1)..(span[2] - 1) :
          text[p] \in JsonObjects /\ HasNameAndUrl(text[p])}

Stripped(text, span) ==
  [i \in 1..(span[2] - span[1] - 1) |->
     [name |-> ObjFields(text[span[1] + i]).name, url |-> ObjFields(text[span[1] + i]).url]]

\* C3 as stated: in JSON-array mode, whenever the reply contains a valid JSON
\* array of objects with name and url, whatever text surrounds it, exactly
\* those items are returned, stripped to {name, url}, in order.
C3_AnySurroundingText ==
  (UiReturned /\ ~llm.raised) =>
    \A span \in ArraysOfItems(llm.text) :
      ret.path = "parsed" /\ ret.items = Stripped(llm.text, span)

\* C3 amended: the same, provided the text before the array holds no "[" and
\* the text after it holds no "]".
C3_NoBracketAround ==
  (UiReturned /\ ~llm.raised) =>
    \A span \in ArraysOfItems(llm.text) :
      (/\ \A p \in 1..(span[1] - 1) : llm.text[p] # "["
       /\ \A p \in (span[2] + 1)..Len(llm.text) : llm.text[p] # "]")
      => ret.path = "parsed" /\ ret.items = Stripped(llm.text, span)

\* C3's case: text before the array, an item with an extra field.
C3_Witness ==
  /\ UiReturned /\ ~llm.raised
  /\ llm.text = <<"x", "[", ObjBx, "]">>
  /\ ret.items = <<[name |-> "B", url |-> <<"u", "B">>]>>

SixFields == {"url", "adaptive_support", "description", "duration", "remote_support", "test_type"}

C9_FacetsMapped ==
  (ApiReturned /\ ~llm.raised) =>
    \A i \in DOMAIN ret.indices :
      LET product == sampled_products[ret.indices[i] + 1]
          record == ret.recommended_assessments[i]
      IN /\ record.remote_support = "Yes" <=> product.RemoteTesting = CHECK_MARK
         /\ record.adaptive_support = "Yes" <=> product.Adaptive = CHECK_MARK

\* The numbers _format_for_llm gave to the products it rendered.
RenderedNumbers == {prompt[i].number : i \in DOMAIN prompt}

\* C11: in index mode every record returned from a successfully parsed reply
\* is that of a product the prompt numbered and rendered: each accepted
\* 1-based index is at most the number of products _format_for_llm included.
C11_AcceptedIndexWasRendered ==
  (ApiReturned /\ ~llm.raised /\ ret.path = "parsed") =>
    \A i \in DOMAIN ret.indices :
      /\ ret.indices[i] + 1 \in RenderedNumbers
      /\ ret.indices[i] + 1 <= Len(prompt)

(***************************************************************************)
(* Claims about the harvest, checked under SpecHarvest, SpecHarvestFair    *)
(* and SpecScrape.                                                         *)
(***************************************************************************)
RECURSIVE SumOfLens(_)
SumOfLens(ts) ==
  IF ts = {} THEN 0
  ELSE LET t == CHOOSE u \in ts : TRUE
       IN Len(taskResult[t]) + SumOfLens(ts \ {t})

ListingFailed(t) == tstate[t] = "done" /\ ~taskListing[t].ok

NonFailing == {t \in Tasks : tstate[t] = "done" /\ taskListing[t].ok}

\* C5: a task whose listing request fails contributes no row, and whatever
\* tasks fail and in whatever order the futures complete, the final aggregate
\* holds every row that every non-failing task returned: it has at least as
\* many rows as those tasks returned together.
C5_FailingTaskIsolated ==
  /\ \A t \in Tasks : ListingFailed(t) => taskResult[t] = <<>>
  /\ hpc = "done" =>
       /\ Len(results) >= SumOfLens(NonFailing)
       /\ \A t \in NonFailing : \A i \in DOMAIN taskResult[t] :
            \E j \in DOMAIN results : results[j] = taskResult[t][i]

\* C5's case: the harvest is over, a task failed after a sibling's rows were
\* collected and before another sibling's rows were.
C5_Witness ==
  /\ hpc = "done"
  /\ \E a, b, c \in DOMAIN completed :
       /\ a < b /\ b < c
       /\ taskResult[completed[a]] # <<>>
       /\ ListingFailed(completed[b])
       /\ taskResult[completed[c]] # <<>>

\* C6: whatever tasks fail, the harvest finishes both pools and writes the
\* aggregate to both the CSV and the JSON file.
C6_HarvestCompletes ==
  <>(hpc = "done" /\ csvFile = <<results>> /\ jsonFile = <<results>>)

\* C6's case: the harvest is over with both files written although one
\* listing request failed and one task lost its rows to a parse error.
C6_Witness ==
  /\ hpc = "done" /\ csvFile = <<results>> /\ jsonFile = <<results>>
  /\ \E t \in Tasks : ListingFailed(t)
  /\ \E t \in NonFailing : taskListing[t].rows # <<>> /\ taskResult[t] = <<>>

\* C8: every product a task emits has a name and a link, neither empty.
C8_EmittedHasNameAndLink ==
  spc = "returned" =>
    \A i \in DOMAIN sReturn : sReturn[i].Name # <<>> /\ sReturn[i].Link # <<>>

\* A row with its title cell, its link, the link's target and its three
\* facet cells.
WellFormedRow(row) == row.title /\ row.link /\ row.hasHref /\ row.ncols >= 3

\* The product of a well-formed row of the task at hand.
ProductOfRow(row) ==
  IF sTask[1] = "combo"
  THEN parse_product_row(row, ProductTypeOf(row), Combinations[sTask[2]][1],
                         Combinations[sTask[2]][2], Combinations[sTask[2]][3], None).product
  ELSE parse_product_row(row, ProductTypeOf(row), None, None, None,
                         job_categories[sTask[2]]).product

\* C10: whatever is wrong with one row of a listing page, every well-formed
\* row of the page is still emitted by the page's task.
C10_OtherRowsStillEmitted ==
  (spc = "returned" /\ sListing.ok) =>
    \A i \in DOMAIN Tables(sListing.rows) :
      WellFormedRow(Tables(sListing.rows)[i]) =>
        \E j \in DOMAIN sReturn : sReturn[j] = ProductOfRow(Tables(sListing.rows)[i])

(***************************************************************************)
(* Claims about the UI session, checked under SpecUi.                      *)
(***************************************************************************)
IsSliceOf(items, list) ==
  \E a \in 1..(Len(list) + 1), b \in 0..Len(list) : items = SubSeq(list, a, b)

\* C12: after any sequence of new queries and "more" requests, typed or by
\* the Show More button, the items a "more" request displays are a slice of
\* the list returned for the latest new query, never results of an earlier
\* one.
C12_MoreShowsLatestQuery ==
  (uiEvent \in {"more", "button"} /\ shown # <<>>) => IsSliceOf(shown, latest)

====
